---- MODULE Spec2Model ----
(***************************************************************************)
(* Model of scripts/assembly_stats.py: the AssemblyAnalyzer statistics     *)
(* engine (Nx / Lx cumulative-sum walks, the stats bundle), the            *)
(* comparison mode and the command-line dispatch of main.                  *)
(*                                                                         *)
(* Two specifications:                                                     *)
(*   SpecStats  the statistics engine on one record list: sort, the stats  *)
(*              bundle, one Nx/Lx query for an arbitrary x, the Nx curve.  *)
(*   Spec       one run of main: argument dispatch, single mode and        *)
(*              comparison mode over a small file system.                  *)
(***************************************************************************)
EXTENDS Integers, Sequences, FiniteSets, TLC

(***************************************************************************)
(* Bounds of the model.                                                    *)
(***************************************************************************)
MaxContigs == 3
MaxContigLen == 1
MaxInputs == 3

\* Record lengths of the spec's scenario (100, 50, 30) and two lengths whose
\* total (25) has a 56% point that is a whole number (14).
ScenarioLengths == {11, 14, 30, 50, 100}
ContigLengths == (0..MaxContigLen) \cup ScenarioLengths

\* The percentages a caller may pass to calculate_nx / _calculate_lx.
Percentages == 1..100
\* range(1, 100) of plot_nx_curve.
CurvePercentages == 1..99

(***************************************************************************)
(* Sequences of integers.                                                  *)
(***************************************************************************)
RECURSIVE Sum(_)
Sum(s) == IF s = <<>> THEN 0 ELSE Head(s) + Sum(Tail(s))

RECURSIVE InsertDesc(_, _)
InsertDesc(v, s) ==
  IF s = <<>> THEN <<v>>
  ELSE IF v > Head(s) THEN <<v>> \o s
  ELSE <<Head(s)>> \o InsertDesc(v, Tail(s))

RECURSIVE InsertAsc(_, _)
InsertAsc(v, s) ==
  IF s = <<>> THEN <<v>>
  ELSE IF v < Head(s) THEN <<v>> \o s
  ELSE <<Head(s)>> \o InsertAsc(v, Tail(s))

\* A mutant of SortDesc: reverse=True forgotten.
RECURSIVE SortAsc(_)
SortAsc(s) == IF s = <<>> THEN <<>> ELSE InsertAsc(Head(s), SortAsc(Tail(s)))

\* list.sort(reverse=True) / sorted(..., reverse=True)
RECURSIVE SortDesc(_)
SortDesc(s) == IF s = <<>> THEN <<>> ELSE InsertDesc(Head(s), SortDesc(Tail(s)))

SeqMax(s) == CHOOSE v \in {s[i] : i \in DOMAIN s} : \A j \in DOMAIN s : s[j] <= v
SeqMin(s) == CHOOSE v \in {s[i] : i \in DOMAIN s} : \A j \in DOMAIN s : s[j] >= v

\* np.median, doubled so that it stays an integer (the mean of the two middle
\* values when the count is even).
Median2(sorted) ==
  LET n == Len(sorted) IN
  IF n % 2 = 1 THEN 2 * sorted[(n + 1) \div 2]
  ELSE sorted[n \div 2] + sorted[n \div 2 + 1]

(***************************************************************************)
(* Binary64 arithmetic of   target = total_length * (x / 100)   and of     *)
(* cumulative >= target,   in integers.                                    *)
(*                                                                         *)
(* x / 100 is correctly rounded to a 53-bit significand M / 2^E, where     *)
(* E = 53 + BinadeShift(x).  100 * M = x * 2^E + RatioErr(x): RatioErr is  *)
(* the signed rounding error in units of 1 / (100 * 2^E).  The product     *)
(* total_length * (M / 2^E) is rounded to nearest (ties to even) again.    *)
(***************************************************************************)
MantissaBits == 53

RECURSIVE Pow2(_)
Pow2(n) == IF n = 0 THEN 1 ELSE 2 * Pow2(n - 1)

\* 2^e mod 100, by repeated squaring.
RECURSIVE Pow2Mod100(_)
Pow2Mod100(e) ==
  IF e = 0 THEN 1
  ELSE LET h == Pow2Mod100(e \div 2)
       IN  IF e % 2 = 0 THEN (h * h) % 100 ELSE (2 * h * h) % 100

RECURSIVE Log2Floor(_)
Log2Floor(n) == IF n <= 1 THEN 0 ELSE 1 + Log2Floor(n \div 2)

\* The k >= 0 with 2^-(k+1) <= x/100 < 2^-k (0 for x = 100, which is exact).
RECURSIVE BinadeShiftFrom(_, _)
BinadeShiftFrom(x, k) ==
  IF x * Pow2(k + 1) >= 100 THEN k ELSE BinadeShiftFrom(x, k + 1)
BinadeShift(x) == BinadeShiftFrom(x, 0)

\* Round to nearest of x * 2^E / 100: the remainder r is dropped when below
\* one half (error -r) and rounded up otherwise (error 100 - r); r = 50 cannot
\* happen, x * 2^E being a multiple of 4.
RatioErr(x) ==
  LET r == (x * Pow2Mod100(MantissaBits + BinadeShift(x))) % 100
  IN  IF r < 50 THEN 0 - r ELSE 100 - r

\* cumulative >= total_length * (x / 100), both sides as the interpreter
\* computes them.  When the real target is not the integer cumulative the
\* rounding (relative 2^-52) cannot cross it; when it is, the comparison is
\* true unless the rounded product lies above it.
FloatGE(cumulative, total_length, x) ==
  IF 100 * cumulative > total_length * x THEN TRUE
  ELSE IF 100 * cumulative < total_length * x THEN FALSE
  ELSE IF cumulative = 0 THEN TRUE
  ELSE IF RatioErr(x) <= 0 THEN TRUE
  ELSE total_length * RatioErr(x)
         <= 100 * Pow2(BinadeShift(x) + Log2Floor(cumulative))

(***************************************************************************)
(* The cumulative-sum walks.                                               *)
(***************************************************************************)
\* for length in lengths: cumulative += length; if cumulative >= target:
\*     return length;   return 0
RECURSIVE NxWalk(_, _, _, _, _)
NxWalk(lengths, total_length, x, i, cumulative) ==
  IF i > Len(lengths) THEN 0
  ELSE IF FloatGE(cumulative + lengths[i], total_length, x) THEN lengths[i]
  ELSE NxWalk(lengths, total_length, x, i + 1, cumulative + lengths[i])

\* calculate_nx, a closure over total_length of _calculate_stats.
calculate_nx(lengths, total_length, x) == NxWalk(lengths, total_length, x, 1, 0)

\* for i, length in enumerate(lengths, 1): ... return i;   return len(lengths)
RECURSIVE LxWalk(_, _, _, _, _)
LxWalk(lengths, total_length, x, i, cumulative) ==
  IF i > Len(lengths) THEN Len(lengths)
  ELSE IF FloatGE(cumulative + lengths[i], total_length, x) THEN i
  ELSE LxWalk(lengths, total_length, x, i + 1, cumulative + lengths[i])

_calculate_lx(lengths, x) == LxWalk(lengths, Sum(lengths), x, 1, 0)

\* The inner loop of plot_nx_curve: appends the crossing length, or nothing.
RECURSIVE CurveWalk(_, _, _, _, _)
CurveWalk(lengths, total_length, x, i, cumulative) ==
  IF i > Len(lengths) THEN <<>>
  ELSE IF FloatGE(cumulative + lengths[i], total_length, x) THEN <<lengths[i]>>
  ELSE CurveWalk(lengths, total_length, x, i + 1, cumulative + lengths[i])

RECURSIVE CurveFrom(_, _, _)
CurveFrom(lengths, total_length, x) ==
  IF x > 99 THEN <<>>
  ELSE CurveWalk(lengths, total_length, x, 1, 0)
         \o CurveFrom(lengths, total_length, x + 1)

\* nx_values of plot_nx_curve, from a sorted copy of stats['lengths'].
NxCurve(statsLengths) ==
  LET lengths == SortDesc(statsLengths) IN CurveFrom(lengths, Sum(lengths), 1)

(***************************************************************************)
(* _calculate_stats: the bundle assigned to self.stats in one assignment.  *)
(* seqs is the list of record lengths in file order.                       *)
(***************************************************************************)
NoStats == [computed |-> FALSE]

CalculateStats(file, seqs) ==
  LET lengths == SortDesc(seqs)
      total_length == Sum(lengths)
      num_contigs == Len(lengths)
  IN  [computed |-> TRUE,
       file |-> file,
       num_contigs |-> num_contigs,
       total_length |-> total_length,
       longest_contig |-> IF lengths # <<>> THEN SeqMax(lengths) ELSE 0,
       shortest_contig |-> IF lengths # <<>> THEN SeqMin(lengths) ELSE 0,
       median2 |-> IF lengths # <<>> THEN Median2(lengths) ELSE 0,
       n50 |-> calculate_nx(lengths, total_length, 50),
       n90 |-> calculate_nx(lengths, total_length, 90),
       l50 |-> _calculate_lx(lengths, 50),
       l90 |-> _calculate_lx(lengths, 90),
       lengths |-> lengths]

(***************************************************************************)
(* Paths and the file system the run sees.  A path is its directory and    *)
(* the dot-separated parts of its final component; a file is whether it    *)
(* exists, whether SeqIO.parse gets through it, and the lengths of its     *)
(* records in file order (residues are not modelled: gc_content, n_content *)
(* and mean_length are not part of this model's bundle).                   *)
(***************************************************************************)
NoPath == [dir |-> "", name |-> <<>>]
AsmA == [dir |-> "run1", name |-> <<"asm", "v2", "fasta">>]
AsmB == [dir |-> "run2", name |-> <<"asm", "v2", "fa">>]
Garbage == [dir |-> "run1", name |-> <<"notes", "txt">>]
Empty == [dir |-> "run1", name |-> <<"empty", "fasta">>]
Missing == [dir |-> "run3", name |-> <<"gone", "fasta">>]
Paths == {AsmA, AsmB, Garbage, Empty, Missing}

FileSystem(p) ==
  CASE p = AsmA -> [exists |-> TRUE, parses |-> TRUE, records |-> <<30, 100, 50>>]
    [] p = AsmB -> [exists |-> TRUE, parses |-> TRUE, records |-> <<11, 14>>]
    [] p = Garbage -> [exists |-> TRUE, parses |-> FALSE, records |-> <<>>]
    [] p = Empty -> [exists |-> TRUE, parses |-> TRUE, records |-> <<>>]
    [] OTHER -> [exists |-> FALSE, parses |-> FALSE, records |-> <<>>]

\* A mutant of Stem: the name cut at its first dot.
Stem_first_dot(p) == <<Head(p.name)>>

\* Path(file).stem: the final component without its last suffix.
Stem(p) ==
  IF Len(p.name) > 1 THEN SubSeq(p.name, 1, Len(p.name) - 1) ELSE p.name

\* A mutant of Construct: the 'if not self.sequences' check left out.
Construct_accepts_empty(file) ==
  LET f == FileSystem(file) IN
  IF ~f.exists
    THEN [file |-> file, error |-> "FileNotFoundError", parsed |-> FALSE,
          sequences |-> <<>>, stats |-> NoStats]
  ELSE IF ~f.parses
    THEN [file |-> file, error |-> "ValueError", parsed |-> TRUE,
          sequences |-> <<>>, stats |-> NoStats]
  ELSE [file |-> file, error |-> "none", parsed |-> TRUE,
        sequences |-> f.records, stats |-> CalculateStats(file, f.records)]

(***************************************************************************)
(* AssemblyAnalyzer.__init__ with _load_sequences: the exception raised    *)
(* ("none" when the analyzer is built), whether SeqIO.parse was called,    *)
(* and self.sequences / self.stats as the constructor leaves them.         *)
(***************************************************************************)
Construct(file) ==
  LET f == FileSystem(file) IN
  IF ~f.exists
    THEN [file |-> file, error |-> "FileNotFoundError", parsed |-> FALSE,
          sequences |-> <<>>, stats |-> NoStats]
  ELSE IF ~f.parses \/ f.records = <<>>
    THEN [file |-> file, error |-> "ValueError", parsed |-> TRUE,
          sequences |-> <<>>, stats |-> NoStats]
  ELSE [file |-> file, error |-> "none", parsed |-> TRUE,
        sequences |-> f.records, stats |-> CalculateStats(file, f.records)]

(***************************************************************************)
(* Dictionaries are objects: heap[r] is the dictionary with reference r.   *)
(***************************************************************************)
\* {k: v for k, v in self.stats.items() if k != 'lengths'}
WithoutLengths(d) == [k \in (DOMAIN d) \ {"lengths"} |-> d[k]]

\* stats['assembly'] = name
WithAssembly(d, name) ==
  [k \in (DOMAIN d) \cup {"assembly"} |-> IF k = "assembly" THEN name ELSE d[k]]

\* A mutant of get_basic_stats: return self.stats itself.
get_basic_stats_alias(h, ref) == [heap |-> h, ref |-> ref]

\* get_basic_stats: a new dictionary; the heap after the call and its reference.
get_basic_stats(h, ref) ==
  [heap |-> Append(h, WithoutLengths(h[ref])), ref |-> Len(h) + 1]

(***************************************************************************)
(* The dispatch of main (lines 341, 367, 371).                             *)
(***************************************************************************)
\* A mutant of DispatchMode: 'and' for the 'or' of the elif.
DispatchMode_and(input, compare) ==
  IF Len(input) = 1 /\ ~compare THEN "single"
  ELSE IF Len(input) > 1 /\ compare THEN "compare"
  ELSE "none"

DispatchMode(input, compare) ==
  IF Len(input) = 1 /\ ~compare THEN "single"
  ELSE IF Len(input) > 1 \/ compare THEN "compare"
  ELSE "none"

(***************************************************************************)
(* State.                                                                  *)
(***************************************************************************)
VARIABLES
  sequences,        \* SpecStats: record lengths in file order
  stats,            \* SpecStats: the bundle of the analyzer
  xArg,             \* SpecStats: the x of the last Nx/Lx query (0: none)
  nxRes,            \* SpecStats: calculate_nx(lengths, xArg)
  lxRes,            \* SpecStats: _calculate_lx(lengths, xArg)
  nx_values,        \* SpecStats: nx_values of plot_nx_curve
  phase,            \* SpecStats: "idle", "loaded", "stats", "queried", "plotted"
  args,             \* main: the parsed command line
  pc,               \* main: position
  mode,             \* main: "", "single", "compare", "none"
  idx,              \* compare_assemblies: position in assembly_files
  analyzers,        \* the analyzers built (main's analyzer, or the list analyzers)
  names,            \* compare_assemblies: names
  heap,             \* the dictionaries
  comparison_data,  \* compare_assemblies: references of the rows
  out,              \* what was printed, written or shown, in order
  constructed,      \* the constructor calls made, in order
  exitCode          \* -1 while running; the exit status

statsVars == <<sequences, stats, xArg, nxRes, lxRes, nx_values, phase>>
mainVars == <<args, pc, mode, idx, analyzers, names, heap, comparison_data,
              out, constructed, exitCode>>
vars == <<sequences, stats, xArg, nxRes, lxRes, nx_values, phase,
          args, pc, mode, idx, analyzers, names, heap, comparison_data,
          out, constructed, exitCode>>

SeqsUpTo(S, n) == UNION {[1..k -> S] : k \in 0..n}

NoArgs == [input |-> <<>>, compare |-> FALSE, json |-> FALSE, tsv |-> FALSE,
           plot |-> FALSE, output |-> FALSE]

StatsIdle ==
  /\ sequences = <<>>
  /\ stats = NoStats
  /\ xArg = 0
  /\ nxRes = 0
  /\ lxRes = 0
  /\ nx_values = <<>>

MainIdle ==
  /\ mode = ""
  /\ idx = 1
  /\ analyzers = <<>>
  /\ names = <<>>
  /\ heap = <<>>
  /\ comparison_data = <<>>
  /\ out = <<>>
  /\ constructed = <<>>
  /\ exitCode = -1

(***************************************************************************)
(* SpecStats: the statistics engine on one non-empty record list.          *)
(***************************************************************************)
InitStats ==
  /\ sequences \in SeqsUpTo(ContigLengths, MaxContigs) \ {<<>>}
  /\ stats = NoStats
  /\ xArg = 0
  /\ nxRes = 0
  /\ lxRes = 0
  /\ nx_values = <<>>
  /\ phase = "loaded"
  /\ args = NoArgs
  /\ pc = "idle"
  /\ MainIdle

\* _calculate_stats on the loaded records.
CalculateStatsStep ==
  /\ phase = "loaded"
  /\ stats' = CalculateStats(NoPath, sequences)
  /\ phase' = "stats"
  /\ UNCHANGED <<sequences, xArg, nxRes, lxRes, nx_values>>
  /\ UNCHANGED mainVars

\* calculate_nx(lengths, x) and self._calculate_lx(lengths, x) for one x, as
\* _calculate_stats calls them on its sorted lengths.
QueryNxLx(x) ==
  /\ phase = "stats"
  /\ xArg' = x
  /\ nxRes' = calculate_nx(stats.lengths, stats.total_length, x)
  /\ lxRes' = _calculate_lx(stats.lengths, x)
  /\ phase' = "queried"
  /\ UNCHANGED <<sequences, stats, nx_values>>
  /\ UNCHANGED mainVars

\* plot_nx_curve: the Nx values for x = 1..99.
PlotNxCurveStats ==
  /\ phase = "stats"
  /\ nx_values' = NxCurve(stats.lengths)
  /\ phase' = "plotted"
  /\ UNCHANGED <<sequences, stats, xArg, nxRes, lxRes>>
  /\ UNCHANGED mainVars

NextStats ==
  \/ CalculateStatsStep
  \/ \E x \in Percentages : QueryNxLx(x)
  \/ PlotNxCurveStats

SpecStats == InitStats /\ [][NextStats]_vars

(***************************************************************************)
(* Spec: one run of main.                                                  *)
(***************************************************************************)
Event(kind, file) == [ev |-> kind, file |-> file]

Init ==
  /\ StatsIdle
  /\ phase = "idle"
  /\ args \in [input : SeqsUpTo(Paths, MaxInputs), compare : BOOLEAN,
               json : BOOLEAN, tsv : BOOLEAN, plot : BOOLEAN,
               output : BOOLEAN]
  /\ pc = "parse"
  /\ MainIdle

\* parser.parse_args(): -i is required with nargs='+', so an empty input list
\* ends the run in the parser (exit status 2).
ParseArgs ==
  /\ pc = "parse"
  /\ IF Len(args.input) = 0
       THEN /\ pc' = "exit"
            /\ exitCode' = 2
            /\ out' = Append(out, Event("usage", NoPath))
       ELSE /\ pc' = "dispatch"
            /\ UNCHANGED <<exitCode, out>>
  /\ UNCHANGED <<args, mode, idx, analyzers, names, heap, comparison_data,
                 constructed>>
  /\ UNCHANGED statsVars

\* if len(args.input) == 1 and not args.compare / elif / else
Dispatch ==
  /\ pc = "dispatch"
  /\ mode' = DispatchMode(args.input, args.compare)
  /\ CASE mode' = "single" ->
            /\ pc' = "single_construct"
            /\ UNCHANGED <<out, exitCode>>
       [] mode' = "compare" ->
            /\ pc' = "cmp_load"
            /\ UNCHANGED <<out, exitCode>>
       [] OTHER ->
            /\ pc' = "exit"
            /\ out' = Append(out, Event("no_input", NoPath))
            /\ exitCode' = 1
  /\ UNCHANGED <<args, idx, analyzers, names, heap, comparison_data,
                 constructed>>
  /\ UNCHANGED statsVars

\* The analyzer object: its file and the reference of its stats dictionary.
Analyzer(file, ref) == [file |-> file, stats |-> ref]

\* A mutant of SingleConstruct: the except clause reports the error and the
\* run ends with status 0 (sys.exit(1) left out).
SingleConstruct_no_exit_status ==
  /\ pc = "single_construct"
  /\ LET c == Construct(args.input[1]) IN
     /\ constructed' = Append(constructed, c)
     /\ IF c.error = "none"
          THEN /\ heap' = Append(heap, c.stats)
               /\ analyzers' = <<Analyzer(c.file, Len(heap) + 1)>>
               /\ pc' = "single_print"
               /\ UNCHANGED <<out, exitCode>>
          ELSE /\ out' = Append(out, Event("error", c.file))
               /\ exitCode' = 0
               /\ pc' = "exit"
               /\ UNCHANGED <<heap, analyzers>>
  /\ UNCHANGED <<args, mode, idx, names, comparison_data>>
  /\ UNCHANGED statsVars

\* analyzer = AssemblyAnalyzer(args.input[0]) inside main's try block: an
\* exception is reported and ends the run with status 1.
SingleConstruct ==
  /\ pc = "single_construct"
  /\ LET c == Construct(args.input[1]) IN
     /\ constructed' = Append(constructed, c)
     /\ IF c.error = "none"
          THEN /\ heap' = Append(heap, c.stats)
               /\ analyzers' = <<Analyzer(c.file, Len(heap) + 1)>>
               /\ pc' = "single_print"
               /\ UNCHANGED <<out, exitCode>>
          ELSE /\ out' = Append(out, Event("error", c.file))
               /\ exitCode' = 1
               /\ pc' = "exit"
               /\ UNCHANGED <<heap, analyzers>>
  /\ UNCHANGED <<args, mode, idx, names, comparison_data>>
  /\ UNCHANGED statsVars

\* analyzer.print_stats()
PrintStats ==
  /\ pc = "single_print"
  /\ out' = Append(out, Event("stats", analyzers[1].file))
  /\ pc' = "single_json"
  /\ UNCHANGED <<args, mode, idx, analyzers, names, heap, comparison_data,
                 constructed, exitCode>>
  /\ UNCHANGED statsVars

\* A consumer of single mode that writes a file: get_basic_stats when it
\* serialises the bundle, then the write, which succeeds (ok) or raises into
\* main's except clause.
SingleWrite(here, wanted, copies, kind, next, ok) ==
  /\ pc = here
  /\ IF ~wanted
       THEN /\ ok
            /\ pc' = next
            /\ UNCHANGED <<heap, out, exitCode>>
       ELSE /\ heap' = IF copies
                         THEN get_basic_stats(heap, analyzers[1].stats).heap
                         ELSE heap
            /\ IF ok
                 THEN /\ out' = Append(out, Event(kind, analyzers[1].file))
                      /\ pc' = next
                      /\ UNCHANGED exitCode
                 ELSE /\ out' = Append(out, Event("error", analyzers[1].file))
                      /\ exitCode' = 1
                      /\ pc' = "exit"
  /\ UNCHANGED <<args, mode, idx, analyzers, names, comparison_data,
                 constructed>>
  /\ UNCHANGED statsVars

\* if args.json: analyzer.save_stats_json(args.json)
SaveStatsJson ==
  \E ok \in BOOLEAN :
    SingleWrite("single_json", args.json, TRUE, "json", "single_tsv", ok)

\* if args.tsv: analyzer.save_stats_tsv(args.tsv)
SaveStatsTsv ==
  \E ok \in BOOLEAN :
    SingleWrite("single_tsv", args.tsv, TRUE, "tsv", "single_plot_len", ok)

\* analyzer.plot_length_distribution(...): saved when an output directory is
\* given, shown otherwise.
PlotLengthDistribution ==
  \E ok \in BOOLEAN :
    /\ args.output \/ ok
    /\ SingleWrite("single_plot_len", args.plot, FALSE,
                   IF args.output THEN "length_plot_saved" ELSE "length_plot_shown",
                   "single_plot_nx", ok)

\* analyzer.plot_nx_curve(...)
PlotNxCurve ==
  \E ok \in BOOLEAN :
    /\ args.output \/ ok
    /\ SingleWrite("single_plot_nx", args.plot, FALSE,
                   IF args.output THEN "nx_plot_saved" ELSE "nx_plot_shown",
                   "single_done", ok)

\* The end of main in single mode.
SingleDone ==
  /\ pc = "single_done"
  /\ pc' = "exit"
  /\ exitCode' = 0
  /\ UNCHANGED <<args, mode, idx, analyzers, names, heap, comparison_data,
                 out, constructed>>
  /\ UNCHANGED statsVars

(***************************************************************************)
(* compare_assemblies(args.input, args.output)                             *)
(***************************************************************************)
\* One pass of   for file in assembly_files: try: ... except Exception: ...
CompareLoad ==
  /\ pc = "cmp_load"
  /\ idx <= Len(args.input)
  /\ LET c == Construct(args.input[idx]) IN
     /\ constructed' = Append(constructed, c)
     /\ IF c.error = "none"
          THEN /\ heap' = Append(heap, c.stats)
               /\ analyzers' = Append(analyzers, Analyzer(c.file, Len(heap) + 1))
               /\ names' = Append(names, Stem(c.file))
               /\ UNCHANGED out
          ELSE /\ out' = Append(out, Event("warning", c.file))
               /\ UNCHANGED <<heap, analyzers, names>>
  /\ idx' = idx + 1
  /\ UNCHANGED <<args, pc, mode, comparison_data, exitCode>>
  /\ UNCHANGED statsVars

\* A mutant of TooFewAssemblies: the threshold off by one.
TooFewAssemblies_off_by_one(loaded) == Len(loaded) < 1

\* len(analyzers) < 2
TooFewAssemblies(loaded) == Len(loaded) < 2

\* if len(analyzers) < 2: print(...); return      (main then ends normally)
CompareCheck ==
  /\ pc = "cmp_load"
  /\ idx > Len(args.input)
  /\ IF TooFewAssemblies(analyzers)
       THEN /\ out' = Append(out, Event("need_two", NoPath))
            /\ pc' = "exit"
            /\ exitCode' = 0
       ELSE /\ pc' = "cmp_rows"
            /\ UNCHANGED <<out, exitCode>>
  /\ UNCHANGED <<args, mode, idx, analyzers, names, heap, comparison_data,
                 constructed>>
  /\ UNCHANGED statsVars

\* One pass of   for i, analyzer in enumerate(analyzers):
\*     stats = analyzer.get_basic_stats(); stats['assembly'] = names[i]
\*     comparison_data.append(stats)
CompareRow ==
  /\ pc = "cmp_rows"
  /\ Len(comparison_data) < Len(analyzers)
  /\ LET i == Len(comparison_data) + 1
         g == get_basic_stats(heap, analyzers[i].stats)
     IN  /\ heap' = [g.heap EXCEPT ![g.ref] = WithAssembly(@, names[i])]
         /\ comparison_data' = Append(comparison_data, g.ref)
  /\ UNCHANGED <<args, pc, mode, idx, analyzers, names, out, constructed,
                 exitCode>>
  /\ UNCHANGED statsVars

\* df = pd.DataFrame(comparison_data) and the printed comparison table.
CompareTable ==
  /\ pc = "cmp_rows"
  /\ Len(comparison_data) = Len(analyzers)
  /\ out' = Append(out, Event("table", NoPath))
  /\ pc' = "cmp_plot"
  /\ UNCHANGED <<args, mode, idx, analyzers, names, heap, comparison_data,
                 constructed, exitCode>>
  /\ UNCHANGED statsVars

\* The comparison figure: saved with the TSV table when an output directory
\* is given (a failed write is an uncaught exception), shown otherwise.
ComparePlot ==
  /\ pc = "cmp_plot"
  /\ \E ok \in BOOLEAN :
       /\ args.output \/ ok
       /\ IF ~ok
            THEN /\ out' = Append(out, Event("traceback", NoPath))
                 /\ exitCode' = 1
            ELSE /\ out' = IF args.output
                             THEN out \o <<Event("comparison_plot_saved", NoPath),
                                           Event("comparison_tsv", NoPath)>>
                             ELSE Append(out, Event("comparison_plot_shown", NoPath))
                 /\ exitCode' = 0
  /\ pc' = "exit"
  /\ UNCHANGED <<args, mode, idx, analyzers, names, heap, comparison_data,
                 constructed>>
  /\ UNCHANGED statsVars

Next ==
  \/ ParseArgs
  \/ Dispatch
  \/ SingleConstruct
  \/ PrintStats
  \/ SaveStatsJson
  \/ SaveStatsTsv
  \/ PlotLengthDistribution
  \/ PlotNxCurve
  \/ SingleDone
  \/ CompareLoad
  \/ CompareCheck
  \/ CompareRow
  \/ CompareTable
  \/ ComparePlot

Spec == Init /\ [][Next]_vars

(***************************************************************************)
(* What the claims speak of, stated without the walks: exact arithmetic.   *)
(***************************************************************************)
PrefixSum(s, i) == Sum(SubSeq(s, 1, i))

\* The first i records cover at least x% of the total.
Covers(s, i, x) == 100 * PrefixSum(s, i) >= Sum(s) * x

\* The rank at which the cumulative sum first reaches or exceeds x% of the
\* total: the size of the smallest longest-first prefix covering x%.
FirstCrossing(s, x) ==
  CHOOSE i \in 1..Len(s) : Covers(s, i, x) /\ \A j \in 1..(i - 1) : ~Covers(s, j, x)

IsSortedDesc(s) == \A i \in 1..(Len(s) - 1) : s[i] >= s[i + 1]

\* A file that loads: it exists, parses and holds at least one record.
Loadable(p) ==
  /\ FileSystem(p).exists
  /\ FileSystem(p).parses
  /\ FileSystem(p).records # <<>>

NotLoadable(p) == ~Loadable(p)

\* The file name with its extension stripped.
ExtensionStripped(p) == SubSeq(p.name, 1, Len(p.name) - 1)

EventsOf(kinds) == SelectSeq(out, LAMBDA e : e.ev \in kinds)
Printed(kind) == \E i \in DOMAIN out : out[i].ev = kind

SingleOutputs == {"stats", "json", "tsv", "length_plot_saved", "length_plot_shown",
                  "nx_plot_saved", "nx_plot_shown"}
CompareOutputs == {"table", "comparison_plot_saved", "comparison_plot_shown",
                   "comparison_tsv"}

(***************************************************************************)
(* Claims on the statistics engine (SpecStats).                            *)
(***************************************************************************)

\* C1: for every non-empty list of record lengths and every x in 1..100,
\* calculate_nx returns the length of the record, in descending order, at
\* which the cumulative sum first reaches or exceeds total_length * x / 100.
C1_NxIsFirstCrossing ==
  phase = "queried" =>
    nxRes = stats.lengths[FirstCrossing(stats.lengths, xArg)]

\* C1, the scenario of the spec: lengths [100, 50, 30] give n50 = 100 and
\* n90 = 30 (this part of the claim holds of the code).
C1_Scenario ==
  (stats.computed /\ stats.lengths = <<100, 50, 30>>) =>
    /\ stats.total_length = 180
    /\ stats.n50 = 100
    /\ stats.n90 = 30

\* C2: for every non-empty list of record lengths and every x in 1..100,
\* _calculate_lx returns the 1-based rank at which the cumulative sum over the
\* descending lengths first reaches or exceeds total_length * x / 100: the
\* least number of contigs, longest first, that cover x% of the total.
C2_LxIsFirstCrossing ==
  phase = "queried" =>
    /\ lxRes = FirstCrossing(stats.lengths, xArg)
    /\ Covers(stats.lengths, lxRes, xArg)
    /\ \A n \in 1..(lxRes - 1) : ~Covers(stats.lengths, n, xArg)

\* C2, the scenario of the spec: lengths [100, 50, 30] give l50 = 1, l90 = 3
\* (this part of the claim holds of the code).
C2_Scenario ==
  (stats.computed /\ stats.lengths = <<100, 50, 30>>) =>
    /\ stats.l50 = 1
    /\ stats.l90 = 3

\* C3: for every non-empty length multiset and all x <= y in 1..99,
\* Nx(x) >= Nx(y) and 1 <= Lx(x) <= Lx(y) <= num_contigs; every computed
\* bundle has n50 >= n90 and l50 <= l90 <= num_contigs; the Nx curve of
\* plot_nx_curve has one value per x and does not increase.
C3_Monotone ==
  /\ phase = "stats" =>
       LET L == stats.lengths
           T == stats.total_length
       IN  \A x \in CurvePercentages :
             /\ 1 <= _calculate_lx(L, x)
             /\ _calculate_lx(L, x) <= stats.num_contigs
             /\ x < 99 =>
                  /\ calculate_nx(L, T, x) >= calculate_nx(L, T, x + 1)
                  /\ _calculate_lx(L, x) <= _calculate_lx(L, x + 1)
  /\ stats.computed =>
       /\ stats.n50 >= stats.n90
       /\ stats.l50 <= stats.l90
       /\ stats.l90 <= stats.num_contigs
       /\ IsSortedDesc(stats.lengths)
  /\ phase = "plotted" =>
       /\ Len(nx_values) = 99
       /\ \A x \in CurvePercentages : \A y \in CurvePercentages :
            x <= y => nx_values[x] >= nx_values[y]
       /\ nx_values[50] = stats.n50
       /\ nx_values[90] = stats.n90

\* C3 witness: a plotted curve that does fall, from a bundle whose L50 and
\* L90 differ.
C3_Witness ==
  /\ phase = "plotted"
  /\ nx_values[1] > nx_values[60]
  /\ nx_values[60] > nx_values[99]
  /\ stats.l50 < stats.l90
  /\ stats.l90 = stats.num_contigs

\* C10: for every non-empty length list and every x in 1..100, Nx(x) is the
\* element at position Lx(x) of the descending lengths, that is the shortest
\* contig of the smallest longest-first prefix covering at least x% of the
\* total; the fallback returns (0, the record count) are never taken.
C10_SameCrossing ==
  phase = "queried" =>
    LET L == stats.lengths
        first == FirstCrossing(L, xArg)
    IN  /\ lxRes \in 1..Len(L)
        /\ nxRes = L[lxRes]
        /\ nxRes = SeqMin(SubSeq(L, 1, first))
        /\ FloatGE(PrefixSum(L, lxRes), stats.total_length, xArg)

\* C10, the part that holds of the code: both walks stop at the same record,
\* and they stop inside the list.
C10_WalksAgree ==
  phase = "queried" =>
    /\ lxRes \in 1..Len(stats.lengths)
    /\ nxRes = stats.lengths[lxRes]
    /\ FloatGE(PrefixSum(stats.lengths, lxRes), stats.total_length, xArg)

(***************************************************************************)
(* Claims on a run of main (Spec).                                         *)
(***************************************************************************)
BundleKeys == {"computed", "file", "num_contigs", "total_length",
               "longest_contig", "shortest_contig", "median2", "n50", "n90",
               "l50", "l90", "lengths"}

SuccessfulConstructions == SelectSeq(constructed, LAMBDA c : c.error = "none")

\* C4: constructing an analyzer for a path that does not exist fails with
\* FileNotFoundError before any parsing is attempted; for an existing file
\* that is unparseable or holds zero records it fails with ValueError; in both
\* cases no statistics are computed, and no analyzer comes out of the call.
C4_ConstructorErrors ==
  /\ \A i \in DOMAIN constructed :
       LET c == constructed[i]
           f == FileSystem(c.file)
       IN  /\ ~f.exists => (c.error = "FileNotFoundError" /\ ~c.parsed)
           /\ (f.exists /\ (~f.parses \/ f.records = <<>>)) => c.error = "ValueError"
           /\ NotLoadable(c.file) => (c.error # "none" /\ c.stats = NoStats)
           /\ c.error = "none" => (c.stats.computed /\ c.stats.num_contigs >= 1)
  /\ Len(analyzers) = Len(SuccessfulConstructions)
  /\ \A i \in DOMAIN analyzers : Loadable(analyzers[i].file)

\* C4 witness: one run in which the three kinds of failure have all happened.
C4_Witness ==
  /\ \E i \in DOMAIN constructed :
       constructed[i].file = Missing /\ constructed[i].error = "FileNotFoundError"
  /\ \E i \in DOMAIN constructed :
       constructed[i].file = Garbage /\ constructed[i].error = "ValueError"
  /\ \E i \in DOMAIN constructed :
       constructed[i].file = Empty /\ constructed[i].error = "ValueError"
  /\ analyzers = <<>>

\* C5: in comparison mode, when fewer than two inputs load, the warnings of
\* the inputs are followed by the 'need at least 2 valid assemblies' error and
\* nothing else is output (no table, no plot, no TSV); when at least two load,
\* the comparison table is produced and that error is never reported.
C5_NeedTwo ==
  mode = "compare" =>
    LET loaded == Len(SelectSeq(args.input, Loadable)) IN
    /\ Printed("need_two") =>
         /\ loaded < 2
         /\ pc = "exit"
         /\ out = EventsOf({"warning"}) \o <<Event("need_two", NoPath)>>
         /\ Len(EventsOf({"warning"})) = Len(SelectSeq(args.input, NotLoadable))
         /\ comparison_data = <<>>
    /\ loaded < 2 =>
         /\ EventsOf(CompareOutputs) = <<>>
         /\ pc = "exit" => Printed("need_two")
    /\ (loaded >= 2 /\ pc = "exit") =>
         /\ Printed("table")
         /\ ~Printed("need_two")

\* C5 witness: one valid and one invalid input, the warning and then the error.
C5_Witness ==
  /\ mode = "compare"
  /\ args.input = <<AsmA, Missing>>
  /\ out = <<Event("warning", Missing), Event("need_two", NoPath)>>

\* C6: in comparison mode every input is attempted exactly once, in order,
\* whatever failed before it; an input that fails gives one warning and no
\* entry, one that loads gives one entry: the comparison set holds one bundle
\* per loaded input, in input order, each labelled with its own file name
\* without the extension, also when two inputs share that name.
C6_OneEntryPerLoadedInput ==
  (mode = "compare" /\ pc \in {"cmp_rows", "cmp_plot", "exit"}) =>
    LET good == SelectSeq(args.input, Loadable)
        bad == SelectSeq(args.input, NotLoadable)
    IN  /\ [i \in DOMAIN constructed |-> constructed[i].file] = args.input
        /\ [i \in DOMAIN analyzers |-> analyzers[i].file] = good
        /\ names = [i \in DOMAIN good |-> ExtensionStripped(good[i])]
        /\ EventsOf({"warning"}) = [i \in DOMAIN bad |-> Event("warning", bad[i])]
        /\ (pc = "cmp_plot" \/ Printed("table")) =>
             /\ Len(comparison_data) = Len(good)
             /\ \A i \in DOMAIN good :
                  /\ heap[comparison_data[i]].assembly = ExtensionStripped(good[i])
                  /\ heap[comparison_data[i]].file = good[i]
                  /\ heap[comparison_data[i]].total_length
                       = Sum(FileSystem(good[i]).records)

\* C6 witness: a failure between two inputs that load and share a name.
C6_Witness ==
  /\ mode = "compare"
  /\ pc = "cmp_plot"
  /\ args.input = <<AsmA, Missing, AsmB>>
  /\ Len(comparison_data) = 2
  /\ heap[comparison_data[1]].assembly = heap[comparison_data[2]].assembly
  /\ heap[comparison_data[1]].file # heap[comparison_data[2]].file
  /\ EventsOf({"warning"}) = <<Event("warning", Missing)>>

\* C7: main runs single mode exactly when one input is given and the
\* comparison flag is not set, and comparison mode in every other case; one
\* mode runs per invocation and the 'provide at least one input file' branch
\* is never reached.
C7_Dispatch ==
  /\ mode # "" =>
       /\ mode \in {"single", "compare"}
       /\ mode = "single" <=> (Len(args.input) = 1 /\ ~args.compare)
       /\ Len(args.input) >= 1
  /\ ~Printed("no_input")
  /\ EventsOf(SingleOutputs) # <<>> => mode = "single"
  /\ (EventsOf(CompareOutputs \cup {"warning", "need_two"}) # <<>>
        \/ idx > 1 \/ comparison_data # <<>>) => mode = "compare"
  /\ (pc = "exit" /\ Len(args.input) >= 1) => mode # ""

\* C7 witness: one input with the comparison flag runs comparison mode.
C7_Witness ==
  /\ Len(args.input) = 1
  /\ args.compare
  /\ mode = "compare"
  /\ pc = "exit"
  /\ Printed("need_two")

\* C8: in single mode an error while loading or analysing the input aborts
\* the run: the error is reported, the exit status is not zero, and nothing is
\* printed or saved for the input; a consumer only ever reads a bundle that
\* was computed in full.
C8_SingleModeAborts ==
  mode = "single" =>
    LET file == args.input[1] IN
    /\ NotLoadable(file) =>
         /\ EventsOf(SingleOutputs) = <<>>
         /\ analyzers = <<>>
         /\ heap = <<>>
         /\ pc = "exit" =>
              /\ exitCode = 1
              /\ out = <<Event("error", file)>>
    /\ Printed("error") => (pc = "exit" /\ exitCode = 1)
    /\ exitCode = 0 => (Loadable(file) /\ Printed("stats") /\ ~Printed("error"))
    /\ EventsOf(SingleOutputs) # <<>> =>
         /\ Len(analyzers) = 1
         /\ DOMAIN heap[analyzers[1].stats] = BundleKeys
         /\ heap[analyzers[1].stats] = CalculateStats(file, FileSystem(file).records)

\* C8 witness: a single-mode run on a file without records has ended.
C8_Witness ==
  /\ mode = "single"
  /\ args.input = <<Empty>>
  /\ args.json
  /\ args.plot
  /\ pc = "exit"
  /\ out = <<Event("error", Empty)>>

SameDict(a, b) ==
  /\ DOMAIN a = DOMAIN b
  /\ \A key \in DOMAIN a : a[key] = b[key]

\* C9: once an analyzer's stats bundle is computed no later operation changes
\* it: get_basic_stats, print_stats, the JSON and TSV writers, the plots and
\* compare_assemblies (which labels its rows) leave every field, the lengths
\* list and its order included, as they were.
C9_StatsNeverChange ==
  [][\A i \in DOMAIN analyzers :
       /\ i \in DOMAIN analyzers'
       /\ analyzers'[i] = analyzers[i]
       /\ analyzers[i].stats \in DOMAIN heap'
       /\ SameDict(heap'[analyzers[i].stats], heap[analyzers[i].stats])]_vars

\* C9 witness: comparison mode has labelled its rows, and the analyzers'
\* bundles still hold their lengths and no label.
C9_Witness ==
  /\ mode = "compare"
  /\ pc = "exit"
  /\ Len(comparison_data) = 2
  /\ \A i \in DOMAIN comparison_data :
       /\ "assembly" \in DOMAIN heap[comparison_data[i]]
       /\ "lengths" \notin DOMAIN heap[comparison_data[i]]
  /\ \A i \in DOMAIN analyzers :
       /\ DOMAIN heap[analyzers[i].stats] = BundleKeys
       /\ heap[analyzers[i].stats].lengths = SortDesc(FileSystem(analyzers[i].file).records)
  /\ heap[analyzers[1].stats].lengths = <<100, 50, 30>>

====
